---- MODULE Spec2Model ----
(***************************************************************************)
(* Model of deepagents_cli/tools.py: five stateless tool adapters          *)
(* (http_request, web_search, fetch_url, check_python_dependencies,        *)
(* check_typescript_dependencies).  Every adapter is one action: the       *)
(* arguments and the outcome of its external step (HTTP exchange, search   *)
(* service, file system, subprocess) are drawn from small sets, and the    *)
(* action records the value returned, the exception that escaped (if any)  *)
(* and the external effects performed, in order.                           *)
(*                                                                         *)
(* Python text is modelled as a sequence of string pieces (an f-string is  *)
(* the concatenation of its pieces); HTML text is a sequence of            *)
(* characters.  A mapping with string keys is a TLA+ record; header and    *)
(* parameter mappings are sets of <<key, value>> pairs; a JSON object is   *)
(* a sequence of <<key, value>> pairs in document order.                   *)
(***************************************************************************)
EXTENDS Integers, Sequences, FiniteSets, TLC

\* Rank of every record key.  Each record below lists its keys by increasing rank.
KeyRank ==
    [ ev |-> 1, file |-> 2, tag |-> 3, ret |-> 4, kind |-> 5, adapter |-> 6,
      method |-> 7, success |-> 8, status_code |-> 9, headers |-> 10,
      body |-> 11, text |-> 12, title |-> 13, content |-> 14, error |-> 15,
      url |-> 16, score |-> 17, markdown_content |-> 18,
      content_length |-> 19, query |-> 20, results |-> 21,
      dependencies |-> 22, outdated |-> 23, upgrades |-> 24, source |-> 25,
      message |-> 26, name |-> 27, current |-> 28, wanted |-> 29,
      latest |-> 30, data |-> 31, params |-> 32, json |-> 33, argv |-> 34,
      check |-> 35, cwd |-> 36, timeout |-> 37, max_results |-> 38,
      topic |-> 39, include_raw_content |-> 40, requirements_path |-> 41,
      check_pyproject |-> 42, package_json_path |-> 43, returncode |-> 44,
      stdout |-> 45, exc |-> 46, msg |-> 47, stderr |-> 48, payload |-> 49,
      files |-> 50, exists |-> 51, proc |-> 52, raw |-> 53, form |-> 54,
      value |-> 55, type |-> 56, inner |-> 57, items |-> 58, result |-> 59,
      raised |-> 60, events |-> 61, kwargs |-> 62 ]

VARIABLES
    tavily_client,  \* module-level search client: "None" or "client"
    call,           \* the last call: adapter name and arguments
    ext,            \* what the outside world answered during the last call
    result,         \* the mapping the last call returned
    raised,         \* the exception class that escaped the last call, or "None"
    events          \* external effects of the last call, in program order

vars == <<tavily_client, call, ext, result, raised, events>>

----------------------------------------------------------------------------
(* Bounds of the model *)

\* longest HTML body, in characters
MaxHtml == 2
\* most packages the npm report lists
MaxNpmPkgs == 2
\* most packages the pip report lists
MaxPipPkgs == 2

----------------------------------------------------------------------------
(* Python values and control flow *)

\* the empty mapping {}
EmptyMap == [k \in {} |-> TRUE]

PyNone == [type |-> "None"]
PyStr(s) == [type |-> "str", inner |-> s]
PyDict(d) == [type |-> "dict", inner |-> d]

\* truth value of headers / params / data in an `if x:` test
Truthy(x) ==
    CASE x.type = "None" -> FALSE
      [] x.type = "str"  -> x.inner # ""
      [] x.type = "dict" -> x.inner # {}

\* the direct base class of the exception classes the adapters can meet
ExcBase(cls) ==
    CASE cls \in {"Timeout", "ConnectionError", "HTTPError"} -> "RequestException"
      [] cls \in {"RequestException", "FileNotFoundError"} -> "OSError"
      [] cls = "JSONDecodeError" -> "ValueError"
      [] cls \in {"CalledProcessError", "TimeoutExpired"} -> "SubprocessError"
      [] cls \in {"OSError", "ValueError", "AttributeError", "KeyError", "TypeError",
                  "SubprocessError"} -> "Exception"
      [] cls = "Exception" -> "BaseException"
      [] OTHER -> "object"

\* isinstance(e, cls) for an exception e of class exc
RECURSIVE IsInstance(_, _)
IsInstance(exc, cls) ==
    \/ exc = cls
    \/ exc # "object" /\ IsInstance(ExcBase(exc), cls)

\* outcome of a block of code: it returns a value or raises an exception
\* whose str() is msg (and, for CalledProcessError, whose stderr is given)
Return(v) == [tag |-> "return", ret |-> v]
Raise(e, m) == [tag |-> "raise", exc |-> e, msg |-> m, stderr |-> ""]
RaiseCalledProcessError(returncode, stderr) ==
    [tag |-> "raise", exc |-> "CalledProcessError",
     msg |-> "Command returned non-zero exit status", stderr |-> stderr]

\* position of the first `except` clause of a try statement that catches exc,
\* 0 when none does
RECURSIVE FirstHandler(_, _, _)
FirstHandler(clauses, exc, i) ==
    IF i > Len(clauses) THEN 0
    ELSE IF IsInstance(exc, clauses[i]) THEN i
    ELSE FirstHandler(clauses, exc, i + 1)

\* the state an adapter call leaves: returned mapping, escaped exception, effects
Done(res, evs) == [result |-> res, raised |-> "None", events |-> evs]
Escaped(e, evs) == [result |-> EmptyMap, raised |-> e, events |-> evs]

----------------------------------------------------------------------------
(* Shared inputs and library behaviour *)

URLs == {"http://a.test/x", "http://b.test/y"}

\* status codes a server may answer with
Statuses == {200, 304, 400, 404, 500, 599, 600}

\* str.upper() on the method names used
Upper(m) == CASE m = "get" -> "GET" [] m = "POST" -> "POST" [] OTHER -> m

\* JSON values: object (pairs in document order), list, string, null
JObject(items) == [type |-> "object", items |-> items]
JList(items) == [type |-> "list", items |-> items]
JStr(s) == [type |-> "str", inner |-> s]
JNull == [type |-> "None"]

\* a text and, when the text is valid JSON, the value it denotes
JsonDoc(value) == [raw |-> "<json text>", form |-> "json", value |-> value]
EmptyDoc == [raw |-> "", form |-> "not json"]
GarbageDoc == [raw |-> "npm ERR! code E404", form |-> "not json"]

\* json.loads / response.json(): the parsed value, or JSONDecodeError
json_loads(doc) ==
    IF doc.form = "json" THEN Return(doc.value)
    ELSE Raise("JSONDecodeError", "Expecting value: line 1 column 1 (char 0)")

\* d[key] / d.get(key, default) on a JSON object
HasKey(d, key) == \E i \in 1..Len(d.items) : d.items[i][1] = key
Lookup(d, key) == d.items[CHOOSE i \in 1..Len(d.items) : d.items[i][1] = key][2]
Get(d, key, default) == IF HasKey(d, key) THEN Lookup(d, key) ELSE default

\* sequences over S of length at most n
SeqsUpTo(S, n) == UNION { [1..k -> S] : k \in 0..n }

\* what a spawned process can do
Completed(returncode, stdout, stderr) ==
    [kind |-> "completed", returncode |-> returncode, stdout |-> stdout, stderr |-> stderr]
NotFound == [kind |-> "notfound"]
TimedOut == [kind |-> "timeout"]
NoProc == [kind |-> "none"]

\* subprocess.run(..., check=check, timeout=...)
subprocess_run(check, proc) ==
    CASE proc.kind = "notfound" ->
            Raise("FileNotFoundError", "[Errno 2] No such file or directory")
      [] proc.kind = "timeout" -> Raise("TimeoutExpired", "timed out")
      [] OTHER ->
            IF check /\ proc.returncode # 0
            THEN RaiseCalledProcessError(proc.returncode, proc.stderr)
            ELSE Return(proc)

----------------------------------------------------------------------------
(* http_request *)

\* argument bundles of http_request: method, headers, data, params, timeout
HttpArgs ==
    { [method |-> "get", headers |-> PyNone, data |-> PyNone, params |-> PyNone,
       timeout |-> 30],
      [method |-> "POST", headers |-> PyDict({<<"Accept", "text/html">>}),
       data |-> PyStr("raw"), params |-> PyDict({}), timeout |-> 5],
      [method |-> "get", headers |-> PyDict({}), data |-> PyDict({<<"k", "v">>}),
       params |-> PyDict({<<"q", "1">>}), timeout |-> 30] }

\* response bodies
JsonBody == [raw |-> "{\"ok\": true}", form |-> "json", value |-> [ok |-> TRUE]]
TextBody == [raw |-> "<html>hello</html>", form |-> "not json"]

\* the keyword arguments handed to requests.request
http_kwargs(url, method, headers, data, params, timeout) ==
    [ method |-> Upper(method),
      headers |-> IF Truthy(headers) THEN headers ELSE PyNone,
      url |-> url,
      data |-> IF Truthy(data) /\ data.type # "dict" THEN data ELSE PyNone,
      params |-> IF Truthy(params) THEN params ELSE PyNone,
      json |-> IF Truthy(data) /\ data.type = "dict" THEN data ELSE PyNone,
      timeout |-> timeout ]

\* content of a response: the parsed JSON body, else the raw text
http_content(body) ==
    LET parsed == json_loads(body)
    IN  IF parsed.tag = "return" THEN parsed.ret ELSE body.raw

http_success_upto400(status_code) == status_code <= 400
\* "success": response.status_code < 400
http_success(status_code) == status_code < 400

\* the mapping built from a received response
http_response_result(response) ==
    [ success |-> http_success(response.status_code),
      status_code |-> response.status_code,
      headers |-> response.headers,
      content |-> http_content(response.body),
      url |-> response.url ]

http_failure_result_minus1(content, url) ==
    [ success |-> FALSE, status_code |-> -1, headers |-> {},
      content |-> content, url |-> url ]
\* the mapping built by each of the three except clauses
http_failure_result(content, url) ==
    [ success |-> FALSE, status_code |-> 0, headers |-> {},
      content |-> content, url |-> url ]

HttpClauses == <<"Timeout", "RequestException", "Exception">>

http_request_fn(url, method, headers, data, params, timeout, x) ==
    LET evs == <<[ev |-> "http",
                  kwargs |-> http_kwargs(url, method, headers, data, params, timeout)]>>
        body == IF x.kind = "response" THEN Return(http_response_result(x))
                ELSE Raise(x.exc, x.msg)
        h == IF body.tag = "raise" THEN FirstHandler(HttpClauses, body.exc, 1) ELSE 0
    IN  IF body.tag = "return" THEN Done(body.ret, evs)
        ELSE CASE h = 1 -> Done(http_failure_result(
                        <<"Request timed out after ", ToString(timeout), " seconds">>,
                        url), evs)
               [] h = 2 -> Done(http_failure_result(
                        <<"Request error: ", body.msg>>, url), evs)
               [] h = 3 -> Done(http_failure_result(
                        <<"Error making request: ", body.msg>>, url), evs)
               [] OTHER -> Escaped(body.exc, evs)

\* what requests.request can do: answer, or raise
HttpOutcomes ==
    [ kind : {"response"}, status_code : Statuses,
      headers : {{<<"Content-Type", "text/html">>}},
      body : {JsonBody, TextBody}, url : URLs ]
    \cup { [kind |-> "raise", exc |-> "Timeout", msg |-> "read timed out"],
           [kind |-> "raise", exc |-> "ConnectionError", msg |-> "connection refused"],
           [kind |-> "raise", exc |-> "ValueError", msg |-> "bad argument"] }

http_request ==
    \E url \in URLs, a \in HttpArgs, x \in HttpOutcomes :
        \E r \in { http_request_fn(url, a.method, a.headers, a.data, a.params,
                                 a.timeout, x) } :
            /\ call' = [ adapter |-> "http_request",
                         method |-> a.method,
                         headers |-> a.headers,
                         url |-> url,
                         data |-> a.data,
                         params |-> a.params,
                         timeout |-> a.timeout ]
            /\ ext' = x
            /\ result' = r.result
            /\ raised' = r.raised
            /\ events' = r.events
            /\ UNCHANGED tavily_client

----------------------------------------------------------------------------
(* web_search *)

Queries == {"tla+ model checking", "python packaging"}

\* argument bundles of web_search: max_results, topic, include_raw_content
SearchArgs ==
    { [max_results |-> 5, topic |-> "general", include_raw_content |-> FALSE],
      [max_results |-> 1, topic |-> "news", include_raw_content |-> TRUE] }

search_unavailable_result_noquery(query) ==
    [ error |-> <<"TAVILY_API_KEY environment variable is not set. Web search is unavailable.">> ]
\* the mapping returned when no client was configured
search_unavailable_result(query) ==
    [ error |-> <<"TAVILY_API_KEY environment variable is not set. Web search is unavailable.">>,
      query |-> query ]

\* the mapping returned when the search service raised
search_error_result(msg, query) ==
    [ error |-> <<"Web search error: ", msg>>, query |-> query ]

web_search_fn(client, query, max_results, topic, include_raw_content, x) ==
    LET called == <<[ ev |-> "search",
                      query |-> query,
                      max_results |-> max_results,
                      topic |-> topic,
                      include_raw_content |-> include_raw_content ]>>
        \* tavily_client.search(...): attribute lookup on the client, then the call
        body == IF client = "None"
                THEN Raise("AttributeError", "'NoneType' object has no attribute 'search'")
                ELSE IF x.kind = "payload" THEN Return(x.payload)
                ELSE Raise(x.exc, x.msg)
        evs == IF client = "None" THEN << >> ELSE called
    IN  IF client = "None" THEN Done(search_unavailable_result(query), << >>)
        ELSE IF body.tag = "return" THEN Done(body.ret, evs)
        ELSE IF IsInstance(body.exc, "Exception")
             THEN Done(search_error_result(body.msg, query), evs)
             ELSE Escaped(body.exc, evs)

\* what the search service can do: yield a payload, or raise
SearchOutcomes ==
    { [kind |-> "payload",
       payload |-> [query |-> q,
                    results |-> <<[ title |-> "T",
                                    content |-> "excerpt",
                                    url |-> "http://a.test/x",
                                    score |-> 1 ]>>]] : q \in Queries }
    \cup { [kind |-> "raise", exc |-> "ConnectionError", msg |-> "connection refused"],
           [kind |-> "raise", exc |-> "Exception", msg |-> "invalid API key"] }

NoExt == [kind |-> "none"]

web_search ==
    \E query \in Queries, a \in SearchArgs,
       x \in (IF tavily_client = "None" THEN {NoExt} ELSE SearchOutcomes) :
        \E r \in { web_search_fn(tavily_client, query, a.max_results, a.topic,
                               a.include_raw_content, x) } :
            /\ call' = [adapter |-> "web_search", query |-> query,
                        max_results |-> a.max_results, topic |-> a.topic,
                        include_raw_content |-> a.include_raw_content]
            /\ ext' = x
            /\ result' = r.result
            /\ raised' = r.raised
            /\ events' = r.events
            /\ UNCHANGED tavily_client

----------------------------------------------------------------------------
(* fetch_url *)

\* characters of an HTML body
HtmlChars == {"<", ">", "x"}
HtmlTexts == SeqsUpTo(HtmlChars, MaxHtml)

\* argument bundles of fetch_url: url, timeout
FetchArgs == { [url |-> "http://a.test/x", timeout |-> 30],
               [url |-> "http://b.test/y", timeout |-> 5] }

\* markdownify, reduced to what it does to markup: the characters of a tag
\* (from "<" to the next ">") are dropped, text is kept
RECURSIVE StripTags(_, _, _)
StripTags(text, i, inTag) ==
    IF i > Len(text) THEN << >>
    ELSE IF text[i] = "<" THEN StripTags(text, i + 1, TRUE)
    ELSE IF inTag THEN StripTags(text, i + 1, text[i] # ">")
    ELSE <<text[i]>> \o StripTags(text, i + 1, FALSE)

markdownify(text) == StripTags(text, 1, FALSE)

raise_for_status_5xx(response) ==
    IF 500 <= response.status_code /\ response.status_code < 600
    THEN Raise("HTTPError", ToString(response.status_code))
    ELSE Return(response)
\* response.raise_for_status(): HTTPError for a 4xx or 5xx status
raise_for_status(response) ==
    IF 400 <= response.status_code /\ response.status_code < 600
    THEN Raise("HTTPError", ToString(response.status_code))
    ELSE Return(response)

fetch_success_result_rawlen(response, markdown_content) ==
    [ status_code |-> response.status_code,
      url |-> response.url,
      markdown_content |-> markdown_content,
      content_length |-> Len(response.text) ]
\* the mapping returned for a fetched and converted page
fetch_success_result(response, markdown_content) ==
    [ status_code |-> response.status_code,
      url |-> response.url,
      markdown_content |-> markdown_content,
      content_length |-> Len(markdown_content) ]

fetch_error_result_nourl(msg, url) ==
    [ error |-> <<"Fetch URL error: ", msg>> ]
\* the mapping returned when anything in fetch_url raised
fetch_error_result(msg, url) ==
    [ error |-> <<"Fetch URL error: ", msg>>, url |-> url ]

fetch_url_fn(url, timeout, x) ==
    LET evs == <<[ev |-> "http",
                  kwargs |-> [ method |-> "GET",
                               headers |-> PyDict({<<"User-Agent",
                                  "Mozilla/5.0 (compatible; DeepAgents/1.0)">>}),
                               url |-> url,
                               timeout |-> timeout ]]>>
        got == IF x.kind = "response" THEN raise_for_status(x) ELSE Raise(x.exc, x.msg)
        body == IF got.tag = "raise" THEN got
                ELSE Return(fetch_success_result(x, markdownify(x.text)))
    IN  IF body.tag = "return" THEN Done(body.ret, evs)
        ELSE IF IsInstance(body.exc, "Exception")
             THEN Done(fetch_error_result(body.msg, url), evs)
             ELSE Escaped(body.exc, evs)

\* what requests.get can do: answer, or raise.  The body of a response is
\* read only when raise_for_status lets it through, so responses with a
\* 4xx or 5xx status carry one body.
FetchOutcomes ==
    { [kind |-> "response", status_code |-> s, text |-> t, url |-> u] :
        s \in {c \in Statuses : c < 400 \/ c >= 600}, t \in HtmlTexts, u \in URLs }
    \cup { [kind |-> "response", status_code |-> s, text |-> <<"x">>, url |-> u] :
        s \in {c \in Statuses : 400 <= c /\ c < 600}, u \in URLs }
    \cup { [kind |-> "raise", exc |-> "Timeout", msg |-> "read timed out"],
           [kind |-> "raise", exc |-> "ConnectionError", msg |-> "connection refused"] }

fetch_url ==
    \E a \in FetchArgs, x \in FetchOutcomes :
        \E r \in { fetch_url_fn(a.url, a.timeout, x) } :
            /\ call' = [adapter |-> "fetch_url", url |-> a.url, timeout |-> a.timeout]
            /\ ext' = x
            /\ result' = r.result
            /\ raised' = r.raised
            /\ events' = r.events
            /\ UNCHANGED tavily_client

----------------------------------------------------------------------------
(* check_python_dependencies *)

\* argument bundles of check_python_dependencies
PyArgs ==
    { [requirements_path |-> "requirements.txt", check_pyproject |-> TRUE],
      [requirements_path |-> "requirements.txt", check_pyproject |-> FALSE],
      [requirements_path |-> "dev/requirements.txt", check_pyproject |-> TRUE] }

\* Path(p).exists() against the files present during the call
Exists(path, files) == path \in files

resolve_source_requirements_first(requirements_path, check_pyproject, files) ==
    IF Exists(requirements_path, files) THEN requirements_path
    ELSE IF check_pyproject /\ Exists("pyproject.toml", files) THEN "pyproject.toml"
    ELSE "None"
\* the file recorded as result["source"], "None" when the call returns early
resolve_source(requirements_path, check_pyproject, files) ==
    IF check_pyproject /\ Exists("pyproject.toml", files) THEN "pyproject.toml"
    ELSE IF Exists(requirements_path, files) THEN requirements_path
    ELSE "None"

\* the mapping returned when neither file exists
no_dependency_file_result(requirements_path) ==
    [ error |-> <<"No dependency file found. Checked: ", requirements_path, ", ",
                  "pyproject.toml">> ]

\* `for pkg in outdated`: the elements iterated, or TypeError
pip_iter(value) ==
    CASE value.type = "list" -> Return(value.items)
      [] value.type = "object" ->
            Return([i \in 1..Len(value.items) |-> JStr(value.items[i][1])])
      [] OTHER -> Raise("TypeError", "'NoneType' object is not iterable")

\* the three subscriptions pkg["name"], pkg["version"], pkg["latest_version"]
pip_entry(pkg) ==
    IF pkg.type # "object" THEN Raise("TypeError", "string indices must be integers")
    ELSE IF ~HasKey(pkg, "name") THEN Raise("KeyError", "'name'")
    ELSE IF ~HasKey(pkg, "version") THEN Raise("KeyError", "'version'")
    ELSE IF ~HasKey(pkg, "latest_version") THEN Raise("KeyError", "'latest_version'")
    ELSE Return([ name |-> Lookup(pkg, "name"), current |-> Lookup(pkg, "version"),
                  latest |-> Lookup(pkg, "latest_version") ])

\* the loop that fills dependencies / outdated / upgrades
RECURSIVE pip_build(_, _, _)
pip_build(pkgs, i, acc) ==
    IF i > Len(pkgs) THEN Return(acc)
    ELSE LET e == pip_entry(pkgs[i])
         IN  IF e.tag = "raise" THEN e
             ELSE pip_build(pkgs, i + 1,
                    [acc EXCEPT
                       !.dependencies = Append(@, e.ret),
                       !.outdated = Append(@, e.ret.name),
                       !.upgrades = Append(@, <<"pip install ", e.ret.name, "==",
                                                e.ret.latest>>)])

\* `if not result["outdated"]: result["message"] = ...`
with_message(res) ==
    IF res.outdated = << >>
    THEN [ dependencies |-> res.dependencies, outdated |-> res.outdated,
           upgrades |-> res.upgrades, source |-> res.source,
           message |-> <<"All dependencies are up to date!">> ]
    ELSE res

PyClauses == <<"CalledProcessError", "TimeoutExpired", "Exception">>

check_python_dependencies_fn(requirements_path, check_pyproject, x) ==
    LET source == resolve_source(requirements_path, check_pyproject, x.files)
        evs == << [ev |-> "source", file |-> source],
                  [ev |-> "spawn", argv |-> <<"pip", "list", "--outdated", "--format=json">>,
                   check |-> TRUE, timeout |-> 30] >>
        ran == subprocess_run(TRUE, x.proc)
        parsed == IF ran.tag = "raise" THEN ran ELSE json_loads(ran.ret.stdout)
        pkgs == IF parsed.tag = "raise" THEN parsed ELSE pip_iter(parsed.ret)
        body == IF pkgs.tag = "raise" THEN pkgs
                ELSE pip_build(pkgs.ret, 1,
                       [ dependencies |-> << >>, outdated |-> << >>, upgrades |-> << >>,
                         source |-> source ])
        h == IF body.tag = "raise" THEN FirstHandler(PyClauses, body.exc, 1) ELSE 0
    IN  IF source = "None" THEN Done(no_dependency_file_result(requirements_path), << >>)
        ELSE IF body.tag = "return" THEN Done(with_message(body.ret), evs)
        ELSE CASE h = 1 -> Done([error |-> <<"Failed to check dependencies: ",
                                             body.stderr>>], evs)
               [] h = 2 -> Done([error |-> <<"Command timed out after 30 seconds">>], evs)
               [] h = 3 -> Done([error |-> <<"Error checking Python dependencies: ",
                                             body.msg>>], evs)
               [] OTHER -> Escaped(body.exc, evs)

\* elements of the list pip reports
PipItems ==
    { JObject(<< <<"name", "a">>, <<"version", "1.0">>, <<"latest_version", "2.0">> >>),
      JObject(<< <<"name", "b">>, <<"version", "0.9">>, <<"latest_version", "1.1">> >>),
      JObject(<< <<"name", "b">>, <<"version", "0.9">> >>),
      JStr("c") }
PipItemName(item) == IF item.type = "object" THEN Lookup(item, "name") ELSE item.inner
PipLists ==
    { s \in SeqsUpTo(PipItems, MaxPipPkgs) :
        \A i, j \in 1..Len(s) : i # j => PipItemName(s[i]) # PipItemName(s[j]) }
PipDocs ==
    { EmptyDoc, GarbageDoc, JsonDoc(JNull), JsonDoc(JObject(<< <<"a", JStr("1.0")>> >>)) }
    \cup { JsonDoc(JList(s)) : s \in PipLists }

\* what running pip can do
PipOutcomes ==
    { Completed(0, d, "") : d \in PipDocs }
    \cup { Completed(1, EmptyDoc, "ERROR: unknown command"), NotFound, TimedOut }

Spawned(evs) == \E i \in 1..Len(evs) : evs[i].ev = "spawn"

check_python_dependencies ==
    \E a \in PyArgs, proc \in PipOutcomes :
    \E files \in SUBSET {a.requirements_path, "pyproject.toml"} :
        \E r \in { check_python_dependencies_fn(a.requirements_path, a.check_pyproject,
                                              [files |-> files, proc |-> proc]) } :
            /\ call' = [adapter |-> "check_python_dependencies",
                        requirements_path |-> a.requirements_path,
                        check_pyproject |-> a.check_pyproject]
            \* a process that was never spawned has no outcome
            /\ ext' = [files |-> files,
                       proc |-> IF Spawned(r.events) THEN proc ELSE NoProc]
            /\ result' = r.result
            /\ raised' = r.raised
            /\ events' = r.events
            /\ UNCHANGED tavily_client

----------------------------------------------------------------------------
(* check_typescript_dependencies *)

PackageJsonPaths == {"package.json", "web/package.json"}

\* Path(p).parent for the paths used
PathParent(path) == CASE path = "web/package.json" -> "web" [] OTHER -> "."

npm_run_checked(proc) == subprocess_run(TRUE, proc)
\* subprocess.run(["npm", "outdated", "--json"], ...) without check=True
npm_run(proc) == subprocess_run(FALSE, proc)

stdout_present_always(stdout) == TRUE
\* `if outdated_result.stdout:`
stdout_present(stdout) == stdout.raw # ""

\* `outdated.items()`: the pairs iterated, or AttributeError
npm_items(value) ==
    IF value.type = "object" THEN Return(value.items)
    ELSE Raise("AttributeError", "object has no attribute 'items'")

\* f"npm install {pkg_name}@{pkg_info.get('latest', 'latest')}"
npm_upgrade(pkg_name, pkg_info) ==
    <<"npm install ", pkg_name, "@", Get(pkg_info, "latest", "latest")>>

\* one pass of the loop body: the three pkg_info.get calls
npm_entry(pkg_name, pkg_info) ==
    IF pkg_info.type # "object"
    THEN Raise("AttributeError", "object has no attribute 'get'")
    ELSE Return([ name |-> pkg_name,
                  current |-> Get(pkg_info, "current", "N/A"),
                  wanted |-> Get(pkg_info, "wanted", "N/A"),
                  latest |-> Get(pkg_info, "latest", "N/A") ])

RECURSIVE npm_build(_, _, _)
npm_build(items, i, acc) ==
    IF i > Len(items) THEN Return(acc)
    ELSE LET e == npm_entry(items[i][1], items[i][2])
         IN  IF e.tag = "raise" THEN e
             ELSE npm_build(items, i + 1,
                    [acc EXCEPT
                       !.dependencies = Append(@, e.ret),
                       !.outdated = Append(@, items[i][1]),
                       !.upgrades = Append(@, npm_upgrade(items[i][1], items[i][2]))])

TsClauses_no_catch_all == <<"FileNotFoundError", "TimeoutExpired">>
\* the except clauses of the outer try statement, in order
TsClauses == <<"FileNotFoundError", "TimeoutExpired", "Exception">>

check_typescript_dependencies_fn(package_json_path, x) ==
    LET evs == << [ev |-> "spawn", argv |-> <<"npm", "outdated", "--json">>,
                   check |-> FALSE, cwd |-> PathParent(package_json_path),
                   timeout |-> 60] >>
        empty == [ dependencies |-> << >>, outdated |-> << >>, upgrades |-> << >>,
                   source |-> package_json_path ]
        ran == npm_run(x.proc)
        parsed == json_loads(ran.ret.stdout)
        items == IF parsed.tag = "raise" THEN parsed ELSE npm_items(parsed.ret)
        filled == IF items.tag = "raise" THEN items ELSE npm_build(items.ret, 1, empty)
        body == IF ran.tag = "raise" THEN ran
                ELSE IF ~stdout_present(ran.ret.stdout) THEN Return(empty)
                ELSE filled
        h == IF body.tag = "raise" THEN FirstHandler(TsClauses, body.exc, 1) ELSE 0
    IN  IF ~x.exists
        THEN Done([error |-> <<"No package.json found at: ", package_json_path>>], << >>)
        ELSE IF body.tag = "return" THEN Done(with_message(body.ret), evs)
        \* the inner try statement catches JSONDecodeError only
        ELSE IF ran.tag = "return" /\ IsInstance(body.exc, "JSONDecodeError")
             THEN Done([error |-> <<"Failed to parse npm outdated output">>], evs)
        ELSE CASE h = 1 -> Done([error |-> <<"npm is not installed or not in PATH">>], evs)
               [] h = 2 -> Done([error |-> <<"npm command timed out after 60 seconds">>],
                                evs)
               [] h = 3 -> Done([error |-> <<"Error checking TypeScript dependencies: ",
                                             body.msg>>], evs)
               [] OTHER -> Escaped(body.exc, evs)

NpmInfo(current, wanted, latest) ==
    JObject(<< <<"current", current>>, <<"wanted", wanted>>, <<"latest", latest>> >>)

\* entries of the object npm reports
NpmItems ==
    { <<"a", NpmInfo("1.0.0", "1.0.1", "2.0.0")>>,
      <<"b", NpmInfo("4.9.0", "4.9.5", "5.3.0")>>,
      <<"b", JObject(<< <<"current", "4.9.0">>, <<"wanted", "4.9.5">> >>)>>,
      <<"c", JStr("3.0.0")>> }
NpmObjects ==
    { s \in SeqsUpTo(NpmItems, MaxNpmPkgs) :
        \A i, j \in 1..Len(s) : i # j => s[i][1] # s[j][1] }
NpmDocs ==
    { EmptyDoc, GarbageDoc, JsonDoc(JNull), JsonDoc(JList(<< >>)) }
    \cup { JsonDoc(JObject(s)) : s \in NpmObjects }

\* what running npm can do
NpmOutcomes ==
    { Completed(rc, d, "") : rc \in {0, 1}, d \in NpmDocs } \cup { NotFound, TimedOut }

check_typescript_dependencies ==
    \E path \in PackageJsonPaths, exists \in BOOLEAN, proc \in NpmOutcomes :
        \E r \in { check_typescript_dependencies_fn(path, [exists |-> exists, proc |-> proc]) } :
            /\ call' = [adapter |-> "check_typescript_dependencies",
                        package_json_path |-> path]
            \* a process that was never spawned has no outcome
            /\ ext' = [exists |-> exists,
                       proc |-> IF Spawned(r.events) THEN proc ELSE NoProc]
            /\ result' = r.result
            /\ raised' = r.raised
            /\ events' = r.events
            /\ UNCHANGED tavily_client

----------------------------------------------------------------------------

Init ==
    /\ tavily_client \in {"None", "client"}
    /\ call = [adapter |-> "none"]
    /\ ext = NoExt
    /\ result = EmptyMap
    /\ raised = "None"
    /\ events = << >>

Next ==
    \/ http_request
    \/ web_search
    \/ fetch_url
    \/ check_python_dependencies
    \/ check_typescript_dependencies

Spec == Init /\ [][Next]_vars

----------------------------------------------------------------------------
(* Vocabulary of the properties *)

Adapter(name) == call.adapter = name

\* a human-readable text: at least one piece, none of them empty
IsText(m) == Len(m) > 0 /\ \A i \in 1..Len(m) : m[i] # ""

\* the text m contains the piece s
Mentions(m, s) == \E i \in 1..Len(m) : m[i] = s

HasError == "error" \in DOMAIN result /\ IsText(result.error)

SearchCalled == \E i \in 1..Len(events) : events[i].ev = "search"

\* the value of result["source"] recorded at position i of the effects
SourceAt(i, v) == events[i].ev = "source" /\ events[i].file = v

\* the document npm printed is an object whose values are all objects
NpmWellFormed(doc) ==
    /\ doc.form = "json"
    /\ doc.value.type = "object"
    /\ \A i \in 1..Len(doc.value.items) : doc.value.items[i][2].type = "object"

\* ... and every value carries a latest version
NpmWithLatest(doc) ==
    /\ NpmWellFormed(doc)
    /\ \A i \in 1..Len(doc.value.items) : HasKey(doc.value.items[i][2], "latest")

----------------------------------------------------------------------------
(* Properties *)

\* C1: whatever the external step of an adapter does, the call returns a
\* mapping and no exception escapes to the caller.
C1_NoExceptionEscapes ==
    /\ raised = "None"
    /\ call.adapter # "none" => DOMAIN result # {}

\* a malformed npm report (JSON null) is turned into an error mapping by the
\* final except clause
C1_Witness ==
    /\ Adapter("check_typescript_dependencies")
    /\ ext.exists
    /\ ext.proc.kind = "completed"
    /\ ext.proc.stdout.form = "json"
    /\ ext.proc.stdout.value.type = "None"
    /\ raised = "None"
    /\ HasError

\* C2 as stated: in every result of http_request, success is true exactly
\* when status_code is below 400.
C2_SuccessIffBelow400 ==
    Adapter("http_request") => (result.success <=> result.status_code < 400)

\* C2 amended: success is true exactly when a response was received and its
\* status_code is below 400; the result of a transport failure has
\* success false although its status_code, 0, is below 400.
C2_SuccessIffResponseBelow400 ==
    Adapter("http_request") =>
        (result.success <=> (ext.kind = "response" /\ result.status_code < 400))

C2_Witness ==
    /\ Adapter("http_request")
    /\ ext.kind = "response"
    /\ result.status_code = 400
    /\ ~result.success

\* C3: when the request of http_request times out or fails in any other way,
\* the adapter returns success false, status_code 0, empty headers, a message
\* in content and the url it was given, and raises nothing.
C3_TransportFailureShape ==
    (Adapter("http_request") /\ ext.kind = "raise") =>
        /\ raised = "None"
        /\ DOMAIN result = {"success", "status_code", "headers", "content", "url"}
        /\ result.success = FALSE
        /\ result.status_code = 0
        /\ result.headers = {}
        /\ IsText(result.content)
        /\ result.url = call.url

C3_Witness ==
    /\ Adapter("http_request")
    /\ ext.kind = "raise"
    /\ ext.exc = "Timeout"
    /\ result.status_code = 0
    /\ Mentions(result.content, "Request timed out after ")

\* C4: with no search client configured, web_search returns an error field
\* and the query unchanged, and never calls the search service.
C4_NoClientNoCall ==
    (Adapter("web_search") /\ tavily_client = "None") =>
        /\ raised = "None"
        /\ HasError
        /\ "query" \in DOMAIN result
        /\ result.query = call.query
        /\ ~SearchCalled

C4_Witness ==
    /\ Adapter("web_search")
    /\ tavily_client = "None"
    /\ HasError
    /\ events = << >>

\* the failure shape of fetch_url: an error message, the url argument, no
\* markdown_content
FetchFailed ==
    /\ HasError
    /\ "url" \in DOMAIN result
    /\ result.url = call.url
    /\ "markdown_content" \notin DOMAIN result

\* C5 as stated: every response whose status is not 2xx makes fetch_url
\* return the failure shape.
C5_Non2xxFails ==
    (/\ Adapter("fetch_url")
     /\ ext.kind = "response"
     /\ ~(200 <= ext.status_code /\ ext.status_code < 300)) => FetchFailed

\* C5 amended: every response whose status is 4xx or 5xx (400..599) makes
\* fetch_url return the failure shape.
C5_4xx5xxFails ==
    (/\ Adapter("fetch_url")
     /\ ext.kind = "response"
     /\ 400 <= ext.status_code /\ ext.status_code < 600) => FetchFailed

C5_Witness ==
    /\ Adapter("fetch_url")
    /\ ext.kind = "response"
    /\ ext.status_code = 400
    /\ FetchFailed

\* C6 as stated: with the manifest present, an npm that cannot be located,
\* an empty standard output, or an output that is not well-formed key->info
\* data each give a result with an error field.
C6_EmptyOrMalformedIsError ==
    (/\ Adapter("check_typescript_dependencies")
     /\ ext.exists
     /\ \/ ext.proc.kind = "notfound"
        \/ /\ ext.proc.kind = "completed"
           /\ \/ ext.proc.stdout.raw = ""
              \/ ~NpmWellFormed(ext.proc.stdout)) =>
        (raised = "None" /\ HasError)

\* C6 amended: an npm that cannot be located, or a non-empty output that is
\* not well-formed key->info data, gives a result with an error field; an
\* empty output gives no error but the "up to date" result with empty lists.
C6_MalformedIsErrorEmptyIsUpToDate ==
    (Adapter("check_typescript_dependencies") /\ ext.exists) =>
        /\ raised = "None"
        /\ ( \/ ext.proc.kind = "notfound"
             \/ /\ ext.proc.kind = "completed"
                /\ ext.proc.stdout.raw # ""
                /\ ~NpmWellFormed(ext.proc.stdout) ) => HasError
        /\ (ext.proc.kind = "completed" /\ ext.proc.stdout.raw = "") =>
              /\ "error" \notin DOMAIN result
              /\ result.outdated = << >>
              /\ result.dependencies = << >>
              /\ result.upgrades = << >>
              /\ result.message = <<"All dependencies are up to date!">>

C6_Witness ==
    /\ Adapter("check_typescript_dependencies")
    /\ ext.exists
    /\ ext.proc.kind = "completed"
    /\ ext.proc.stdout.raw = ""
    /\ ext.proc.returncode = 1
    /\ "message" \in DOMAIN result

\* C7: with the manifest present and any exit code of npm, an output that is
\* an object keyed by package name (each value an object with a latest
\* version) gives one dependencies entry, one outdated name and one upgrade
\* command per key, in the same order, the command being
\* npm install <name>@<latest>.
C7_NonZeroExitOneEntryPerKey ==
    (/\ Adapter("check_typescript_dependencies")
     /\ ext.exists
     /\ ext.proc.kind = "completed"
     /\ NpmWithLatest(ext.proc.stdout)) =>
        LET items == ext.proc.stdout.value.items
        IN  /\ raised = "None"
            /\ "error" \notin DOMAIN result
            /\ Len(result.dependencies) = Len(items)
            /\ Len(result.outdated) = Len(items)
            /\ Len(result.upgrades) = Len(items)
            /\ \A i \in 1..Len(items) :
                 /\ result.dependencies[i].name = items[i][1]
                 /\ result.dependencies[i].latest = Lookup(items[i][2], "latest")
                 /\ result.outdated[i] = items[i][1]
                 /\ result.upgrades[i] =
                      <<"npm install ", items[i][1], "@", Lookup(items[i][2], "latest")>>

C7_Witness ==
    /\ Adapter("check_typescript_dependencies")
    /\ ext.exists
    /\ ext.proc.kind = "completed"
    /\ ext.proc.returncode = 1
    /\ NpmWithLatest(ext.proc.stdout)
    /\ result.outdated = <<"b">>
    /\ result.upgrades = << <<"npm install ", "b", "@", "5.3.0">> >>

\* C8: check_python_dependencies records pyproject.toml as the source when
\* check_pyproject is set and that file exists, else the requirements path
\* when that file exists, else returns an error naming both paths without
\* spawning a process; a process is spawned only after a source was recorded.
C8_ResolutionOrder ==
    Adapter("check_python_dependencies") =>
        LET path == call.requirements_path
            preferred == call.check_pyproject /\ "pyproject.toml" \in ext.files
        IN  /\ preferred => (events # << >> /\ SourceAt(1, "pyproject.toml"))
            /\ (~preferred /\ path \in ext.files) =>
                   (events # << >> /\ SourceAt(1, path))
            /\ (~preferred /\ path \notin ext.files) =>
                   /\ HasError
                   /\ Mentions(result.error, path)
                   /\ Mentions(result.error, "pyproject.toml")
                   /\ events = << >>
            /\ \A i \in 1..Len(events) :
                   events[i].ev = "spawn" =>
                       \E j \in 1..(i - 1) :
                           events[j].ev = "source" /\ events[j].file # "None"
            /\ "source" \in DOMAIN result => SourceAt(1, result.source)

C8_Witness ==
    /\ Adapter("check_python_dependencies")
    /\ call.check_pyproject
    /\ ext.files = {call.requirements_path, "pyproject.toml"}
    /\ "source" \in DOMAIN result
    /\ result.source = "pyproject.toml"
    /\ Spawned(events)

\* a result that reports a failure: an error field, or the transport-failure
\* shape of http_request
ErrorShaped ==
    \/ "error" \in DOMAIN result
    \/ Adapter("http_request") /\ ~result.success /\ result.status_code = 0

HasMessage ==
    IF Adapter("http_request") THEN IsText(result.content) ELSE HasError

EchoesUrl == "url" \in DOMAIN result /\ result.url = call.url
EchoesQuery == "query" \in DOMAIN result /\ result.query = call.query

\* the manifest path is a field of the result or a piece of its message
CarriesPath(path) ==
    \/ "source" \in DOMAIN result /\ result.source = path
    \/ Mentions(result.error, path)

\* C9 as stated: every error-shaped result of every adapter carries a message
\* and the input that identifies the call (url, query, manifest path).
C9_ErrorCarriesInput ==
    ErrorShaped =>
        /\ HasMessage
        /\ CASE Adapter("http_request") -> EchoesUrl
             [] Adapter("fetch_url") -> EchoesUrl
             [] Adapter("web_search") -> EchoesQuery
             [] Adapter("check_python_dependencies") ->
                    CarriesPath(call.requirements_path)
             [] Adapter("check_typescript_dependencies") ->
                    CarriesPath(call.package_json_path)
             [] OTHER -> FALSE

\* C9 amended: every error-shaped result carries a message; those of
\* http_request, fetch_url and web_search also carry the url or query; those
\* of the two dependency checkers hold the error field alone, and its message
\* names the manifest path only when the manifest was not found.
C9_ErrorCarriesMessage ==
    ErrorShaped =>
        /\ HasMessage
        /\ CASE Adapter("http_request") -> EchoesUrl
             [] Adapter("fetch_url") -> EchoesUrl
             [] Adapter("web_search") -> EchoesQuery
             [] Adapter("check_python_dependencies") ->
                    /\ DOMAIN result = {"error"}
                    /\ CarriesPath(call.requirements_path) <=> events = << >>
             [] Adapter("check_typescript_dependencies") ->
                    /\ DOMAIN result = {"error"}
                    /\ CarriesPath(call.package_json_path) <=> ~ext.exists
             [] OTHER -> FALSE

C9_Witness ==
    /\ Adapter("fetch_url")
    /\ ext.kind = "raise"
    /\ HasError
    /\ EchoesUrl

\* C10: the content_length of a fetch_url result is the length of its
\* markdown_content.
C10_ContentLength ==
    Adapter("fetch_url") =>
        /\ "markdown_content" \in DOMAIN result <=> "content_length" \in DOMAIN result
        /\ "markdown_content" \in DOMAIN result =>
               result.content_length = Len(result.markdown_content)

\* a page whose markup was dropped: the converted text is shorter than the body
C10_Witness ==
    /\ Adapter("fetch_url")
    /\ "markdown_content" \in DOMAIN result
    /\ result.content_length > 0
    /\ result.content_length < Len(ext.text)

====
